---- MODULE Spec2Model ----
(***************************************************************************)
(* MovieAI: the recommendation engine (backend/utils.py), the feature      *)
(* preprocessor (backend/data/Movie_dataset/movies_preprocessing.py), the  *)
(* emotion adapter (backend/emotion_analysis.py) and the catalog client    *)
(* (backend/model.py), as state machines.                                  *)
(*                                                                         *)
(* Text is a sequence of one-character strings, so that trimming,          *)
(* lower-casing, prefix tests and concatenation are computed, not assumed. *)
(* A table cell is a record [k, s]: k = "str" with the text s, or the      *)
(* missing markers NaN (pandas) and None (Python).                         *)
(***************************************************************************)
EXTENDS Naturals, Integers, Sequences, FiniteSets, TLC

VARIABLES
    df_pre,         \* MovieRecommender.__init__: the table read from movies_preprocessed.csv
    df_meta,        \* MovieRecommender.__init__: the table read from movies_metadata.csv
    tmdb_api_key,   \* utils.TMDB_API_KEY is set (TRUE) or empty/None (FALSE)
    movies,         \* MovieRecommender.movies: the merged working table
    poster_cache,   \* MovieRecommender.poster_cache: title_clean -> URL cell or None
    pc,             \* position of the engine: start (in __init__), idle, loop, returned, raised
    emotion,        \* argument of the call in progress / last call
    n_results,      \* argument of the call in progress / last call
    sample,         \* row numbers of movies drawn by movies.sample(...), in order
    poster_urls,    \* the poster_urls list built by the loop
    issued,         \* titles sent to the remote search during this call
    lookup,         \* what the loop iteration just executed did
    df,             \* movies_preprocessing: the table being prepared
    step,           \* movies_preprocessing: the statement group last executed
    scaler,         \* movies_preprocessing: the fitted StandardScaler
    pipeline_cached,\* emotion_analysis: lru_cache of _get_emotion_pipeline holds the handle
    built,          \* emotion_analysis: pipeline(...) constructions so far
    hit,            \* emotion_analysis: lru_cache answered the last call's _get_emotion_pipeline()
    text,           \* emotion_analysis: argument of the last detect_emotion_and_mood
    invoked,        \* emotion_analysis: classifier invocations made by the last call
    detected,       \* emotion_analysis: value returned by the last call
    op,             \* model.MovieRecommender: the method called last
    arg,            \* model.MovieRecommender: its argument
    http,           \* model.MovieRecommender: requests sent by the last call, in order
    answers,        \* model.MovieRecommender: what the catalog did with each of them
    tab,            \* frontend/app.py emotion tab: idle, or analyzed (between lines 258 and 271)
    ret             \* model.MovieRecommender: what the last call returned, or Raised

engineVars == <<df_pre, df_meta, tmdb_api_key, movies, poster_cache, pc, emotion, n_results,
                sample, poster_urls, issued, lookup>>

preVars == <<df, step, scaler>>

adapterVars == <<pipeline_cached, built, hit, text, invoked, detected>>

clientVars == <<op, arg, http, answers, ret, tab>>

vars == <<engineVars, preVars, adapterVars, clientVars>>

----------------------------------------------------------------------------
(* Cells and text *)

Str(s) == [k |-> "str", s |-> s]
NaN == [k |-> "nan", s |-> <<>>]
None == [k |-> "none", s |-> <<>>]

UpperChars == <<"A", "B", "C", "D", "E", "F", "G", "H", "I", "J", "K", "L", "M",
                "N", "O", "P", "Q", "R", "S", "T", "U", "V", "W", "X", "Y", "Z">>
LowerChars == <<"a", "b", "c", "d", "e", "f", "g", "h", "i", "j", "k", "l", "m",
                "n", "o", "p", "q", "r", "s", "t", "u", "v", "w", "x", "y", "z">>
Whitespace == {" ", "\t", "\n"}

LowerChar(c) ==
    IF \E i \in DOMAIN UpperChars : UpperChars[i] = c
    THEN LowerChars[CHOOSE i \in DOMAIN UpperChars : UpperChars[i] = c]
    ELSE c

\* str.lower()
lower(s) == [i \in 1..Len(s) |-> LowerChar(s[i])]

RECURSIVE lstrip(_)
lstrip(s) == IF s # <<>> /\ Head(s) \in Whitespace THEN lstrip(Tail(s)) ELSE s

RECURSIVE rstrip(_)
rstrip(s) ==
    IF s # <<>> /\ s[Len(s)] \in Whitespace THEN rstrip(SubSeq(s, 1, Len(s) - 1)) ELSE s

\* str.strip()
strip(s) == rstrip(lstrip(s))

\* str(x) / .astype(str) of a cell read from CSV
AsStr(cell) ==
    IF cell.k = "nan" THEN <<"n", "a", "n">>
    ELSE IF cell.k = "none" THEN <<"N", "o", "n", "e">>
    ELSE cell.s

Range(f) == {f[i] : i \in DOMAIN f}

\* str.startswith("/")
StartsWithSlash(s) == s # <<>> /\ Head(s) = "/"

----------------------------------------------------------------------------
(* Class constants of utils.MovieRecommender *)

GENRE_COLUMNS ==
    <<"Action", "Adventure", "Animation", "Comedy", "Crime", "Documentary",
      "Drama", "Family", "Fantasy", "History", "Horror", "Music", "Mystery",
      "Romance", "Science Fiction", "TV Movie", "Thriller", "War", "Western">>

Happy == <<"h", "a", "p", "p", "y">>
Sad == <<"s", "a", "d">>
Excited == <<"e", "x", "c", "i", "t", "e", "d">>
Relaxed == <<"r", "e", "l", "a", "x", "e", "d">>
Scared == <<"s", "c", "a", "r", "e", "d">>

EMOTION_GENRE_KEYS == {Happy, Sad, Excited, Relaxed, Scared}

EMOTION_GENRE_MAP(e) ==
    CASE e = Happy -> <<"Comedy", "Adventure", "Family", "Animation", "Fantasy", "Romance">>
      [] e = Sad -> <<"Drama", "Music", "Documentary">>
      [] e = Excited -> <<"Action", "Science Fiction", "Thriller", "War">>
      [] e = Relaxed -> <<"Romance", "Family", "Comedy">>
      [] e = Scared -> <<"Horror", "Mystery", "Thriller">>

\* the f-string prefix of lines 191 and 224
ImageBase == <<"https://image.tmdb.org/t/p/w500">>

----------------------------------------------------------------------------
(* Input tables of MovieRecommender.__init__ *)

MaxPre == 2     \* rows of movies_preprocessed.csv
MaxN == 2       \* largest n_results requested

\* rows of the processed table: title, overview, the genre columns holding 1
PreRows ==
    { [title |-> Str(<<"U", "p">>), overview |-> Str(<<"o", "1">>), genres |-> {"Comedy", "Drama"}],
      [title |-> Str(<<" ", "u", "P">>), overview |-> NaN, genres |-> {"Horror"}],
      [title |-> Str(<<"I", "t">>), overview |-> Str(<<" ">>), genres |-> {"Thriller", "Foreign"}] }

SeqsUpTo(S, n) == UNION {[1..k -> S] : k \in 0..n}

PreTables == SeqsUpTo(PreRows, MaxPre) \ {<<>>}

MetaUp == [title |-> Str(<<"U", "P", " ">>), poster_path |-> Str(<<"/", "u">>),
           overview |-> Str(<<"m", "1">>)]
MetaUpNoPoster == [title |-> Str(<<"u", "p">>), poster_path |-> NaN, overview |-> NaN]
MetaItBadPath == [title |-> Str(<<"I", "t">>), poster_path |-> Str(<<"i", ".", "j">>),
                  overview |-> Str(<<"m", "2">>)]

\* the secondary metadata tables tried: none, one match, two rows sharing a
\* normalized title (in both orders), an unusable poster path
MetaTables ==
    { <<>>, <<MetaUp>>, <<MetaUpNoPoster, MetaUp>>, <<MetaUp, MetaUpNoPoster>>,
      <<MetaItBadPath, MetaUp>> }

----------------------------------------------------------------------------
(* MovieRecommender.__init__ *)

\* lines 123-124: .astype(str).str.strip().str.lower()
title_clean(title) == lower(strip(AsStr(title)))

\* lines 144-150
clean_poster(p) ==
    LET ps == AsStr(p) IN
    IF lower(ps) \in {<<>>, <<"0">>, <<"n", "a", "n">>, <<"n", "o", "n", "e">>,
                      <<"n", "u", "l", "l">>}
    THEN None
    ELSE IF ~StartsWithSlash(ps) THEN None
    ELSE Str(ps)

\* lines 135-140: the processed overview when it is a non-blank string, else the
\* metadata overview
pick_overview(overview, overview_meta) ==
    IF overview.k = "str" /\ strip(overview.s) # <<>> THEN overview ELSE overview_meta

RECURSIVE JoinComma(_)
JoinComma(names) ==
    IF names = <<>> THEN <<>>
    ELSE IF Len(names) = 1 THEN names
    ELSE <<Head(names), ", ">> \o JoinComma(Tail(names))

\* lines 160-163
genre_label(genres) ==
    LET set == SelectSeq(GENRE_COLUMNS, LAMBDA g : g \in genres) IN
    IF JoinComma(set) = <<>> THEN <<"Unknown">> ELSE JoinComma(set)

\* the metadata rows whose normalized title is key, in source order
MetaMatches(meta, key) ==
    SelectSeq(meta, LAMBDA m : title_clean(m.title) = key)

\* one row of the working table
EnrichedRow(r, poster_path, overview_meta) ==
    [title |-> r.title,
     title_clean |-> title_clean(r.title),
     overview |-> pick_overview(r.overview, overview_meta),
     poster_path |-> clean_poster(poster_path),
     genres |-> r.genres,
     genre_label |-> genre_label(r.genres)]

\* line 132: df_pre.merge(df_meta, on="title_clean", how="left") keeps the left
\* order and yields one row per matching right row, or one row of NaN when
\* there is none
JoinRow(r, meta) ==
    LET ms == MetaMatches(meta, title_clean(r.title)) IN
    IF ms = <<>> THEN <<EnrichedRow(r, NaN, NaN)>>
    ELSE [i \in 1..Len(ms) |-> EnrichedRow(r, ms[i].poster_path, ms[i].overview)]

RECURSIVE Merge(_, _)
Merge(pre, meta) ==
    IF pre = <<>> THEN <<>>
    ELSE JoinRow(Head(pre), meta) \o Merge(Tail(pre), meta)

\* the columns of the working table that are genre indicators
columns(table) == UNION {table[i].genres : i \in DOMAIN table}

----------------------------------------------------------------------------
(* MovieRecommender._fetch_tmdb_poster_url *)

\* what the catalog service does with one search request
Outcomes == {"error", "empty", "noposter", "found"}

\* poster_path of the best match when the search finds one
RemotePath == <<"/", "r">>

Exc == [k |-> "exc", s |-> <<>>]

\* lines 172-192, the body of the try block: raise_for_status / json raising,
\* an empty result list, a first result without poster_path, or a URL
fetch_try(outcome) ==
    CASE outcome = "error" -> Exc
      [] outcome = "empty" -> None
      [] outcome = "noposter" -> None
      [] outcome = "found" -> Str(ImageBase \o RemotePath)

\* the try block without its handler
fetch_no_except(r) == r

\* lines 193-194: except Exception: return None
fetch_except(r) == IF r = Exc THEN None ELSE r

\* lines 166-194: the value returned, and whether a request was sent
fetch_tmdb_poster_url(key_set, outcome) ==
    IF ~key_set THEN [url |-> None, sent |-> FALSE]
    ELSE [url |-> fetch_except(fetch_try(outcome)), sent |-> TRUE]

----------------------------------------------------------------------------
(* MovieRecommender.recommend_by_emotion *)

Emotions ==
    { <<" ", "H", "a", "p", "p", "y">>,
      <<"S", "C", "A", "R", "E", "D", "\t">>,
      <<"b", "o", "r", "e", "d">> }

NResults == -1..MaxN

Min(a, b) == IF a <= b THEN a ELSE b

\* the lookup without .lower().strip()
mapped_genres_raw(e) ==
    IF e \in EMOTION_GENRE_KEYS THEN EMOTION_GENRE_MAP(e) ELSE <<"Drama">>

\* lines 197-198
mapped_genres(e) ==
    LET em == strip(lower(e)) IN
    IF em \in EMOTION_GENRE_KEYS THEN EMOTION_GENRE_MAP(em) ELSE <<"Drama">>

\* lines 200-205: the row numbers the mask selects
filter_rows(table, genres) ==
    {i \in DOMAIN table :
        \E j \in DOMAIN genres :
            genres[j] \in columns(table) /\ genres[j] \in table[i].genres}

\* the sample size without min(...)
sample_size_all(n, rows) == IF n < 0 THEN n ELSE Cardinality(rows)

\* line 209: the size handed to DataFrame.sample
sample_size(n, rows) == Min(n, Cardinality(rows))

\* DataFrame.sample(k): k distinct rows, in any order
Samples(rows, k) ==
    {s \in [1..k -> rows] : \A i, j \in 1..k : i # j => s[i] # s[j]}

\* dict assignment
Put(cache, key, v) ==
    [k \in DOMAIN cache \cup {key} |-> IF k = key THEN v ELSE cache[k]]

\* the cache never consulted
cache_hit_never(cache, key) == FALSE

\* a truthiness test, which takes a cached None for a miss
cache_hit_truthy(cache, key) == key \in DOMAIN cache /\ cache[key] # None

\* line 218
cache_hit(cache, key) == key \in DOMAIN cache

\* the local path ignored
has_local_poster_never(row) == FALSE

\* line 223: isinstance(poster_path, str)
has_local_poster(row) == row.poster_path.k = "str"

\* line 224
local_url(row) == Str(ImageBase \o row.poster_path.s)

\* the row the loop is at
CurrentRow == movies[sample[Len(poster_urls) + 1]]

EmptyCache == [k \in {} |-> None]

EngineInit ==
    /\ df_pre = <<>>
    /\ df_meta = <<>>
    /\ tmdb_api_key \in BOOLEAN
    /\ \E pre \in PreTables, meta \in MetaTables : movies = Merge(pre, meta)
    /\ poster_cache = EmptyCache
    /\ pc = "idle"
    /\ emotion = <<>>
    /\ n_results = 0
    /\ sample = <<>>
    /\ poster_urls = <<>>
    /\ issued = <<>>
    /\ lookup = "none"

\* lines 196-209: filter, early return, draw the sample
Recommend ==
    /\ pc \in {"idle", "returned", "raised"}
    /\ \E e \in Emotions, n \in NResults :
        LET rows == filter_rows(movies, mapped_genres(e)) IN
        /\ emotion' = e
        /\ n_results' = n
        /\ poster_urls' = <<>>
        /\ issued' = <<>>
        /\ lookup' = "none"
        /\ IF rows = {}
           THEN sample' = <<>> /\ pc' = "returned"
           ELSE IF sample_size(n, rows) < 0
           THEN sample' = <<>> /\ pc' = "raised"
           ELSE /\ sample' \in Samples(rows, sample_size(n, rows))
                /\ pc' = IF sample' = <<>> THEN "returned" ELSE "loop"
    /\ UNCHANGED <<tmdb_api_key, movies, poster_cache>>
    /\ UNCHANGED <<df_pre, df_meta, preVars, adapterVars, clientVars>>

\* lines 234-235 after the last iteration, else the next iteration
AfterRow(urls) == IF Len(urls) = Len(sample) THEN "returned" ELSE "loop"

\* lines 217-220: the title was looked up before
ResolveCached ==
    /\ pc = "loop"
    /\ cache_hit(poster_cache, CurrentRow.title_clean)
    /\ poster_urls' = Append(poster_urls, poster_cache[CurrentRow.title_clean])
    /\ pc' = AfterRow(poster_urls')
    /\ lookup' = "cache"
    /\ UNCHANGED <<tmdb_api_key, movies, poster_cache, emotion, n_results, sample, issued>>
    /\ UNCHANGED <<df_pre, df_meta, preVars, adapterVars, clientVars>>

\* lines 222-227: the merged metadata has a poster path
ResolveLocal ==
    /\ pc = "loop"
    /\ ~cache_hit(poster_cache, CurrentRow.title_clean)
    /\ has_local_poster(CurrentRow)
    /\ poster_urls' = Append(poster_urls, local_url(CurrentRow))
    /\ poster_cache' = Put(poster_cache, CurrentRow.title_clean, local_url(CurrentRow))
    /\ pc' = AfterRow(poster_urls')
    /\ lookup' = "local"
    /\ UNCHANGED <<tmdb_api_key, movies, emotion, n_results, sample, issued>>
    /\ UNCHANGED <<df_pre, df_meta, preVars, adapterVars, clientVars>>

\* lines 229-232: search the catalog by title; an exception leaving
\* _fetch_tmdb_poster_url would leave recommend_by_emotion too
ResolveRemote ==
    /\ pc = "loop"
    /\ ~cache_hit(poster_cache, CurrentRow.title_clean)
    /\ ~has_local_poster(CurrentRow)
    /\ \E outcome \in Outcomes :
        LET f == fetch_tmdb_poster_url(tmdb_api_key, outcome) IN
        /\ issued' = IF f.sent THEN Append(issued, CurrentRow.title) ELSE issued
        /\ lookup' = IF f.sent THEN outcome ELSE "nokey"
        /\ IF f.url = Exc
           THEN pc' = "raised" /\ UNCHANGED <<poster_urls, poster_cache>>
           ELSE /\ poster_urls' = Append(poster_urls, f.url)
                /\ poster_cache' = Put(poster_cache, CurrentRow.title_clean, f.url)
                /\ pc' = AfterRow(poster_urls')
    /\ UNCHANGED <<tmdb_api_key, movies, emotion, n_results, sample>>
    /\ UNCHANGED <<df_pre, df_meta, preVars, adapterVars, clientVars>>

EngineNext == Recommend \/ ResolveCached \/ ResolveLocal \/ ResolveRemote

----------------------------------------------------------------------------
(* Properties of recommend_by_emotion *)

Last(s) == s[Len(s)]

\* the emotion of the call, trimmed and lower-cased
NormalEmotion == lower(strip(emotion))

\* the genres the call's emotion stands for, Drama when it is not a key
ClaimedGenres ==
    IF NormalEmotion \in EMOTION_GENRE_KEYS
    THEN Range(EMOTION_GENRE_MAP(NormalEmotion))
    ELSE {"Drama"}

\* the rows of the table with an indicator set among those genres
Matching == {i \in DOMAIN movies : movies[i].genres \cap ClaimedGenres # {}}

Finished == pc \in {"returned", "raised"}

\* C1 as stated: for every n the call returns at most n records, and none
\* exactly when no row matches the emotion's genres
C1_AnySize ==
    Finished =>
        /\ pc = "returned"
        /\ Len(sample) <= n_results
        /\ (Len(sample) = 0 <=> Matching = {})

\* C1 (amended): for every emotion and every n >= 1 the call returns at most n
\* records, and returns none exactly when no row of the table has an
\* indicator set among the genres mapped to the emotion
C1_SamplingBound ==
    (Finished /\ n_results >= 1) =>
        /\ pc = "returned"
        /\ Len(sample) <= n_results
        /\ Len(poster_urls) = Len(sample)
        /\ (Len(sample) = 0 <=> Matching = {})

\* more rows match than were asked for, and exactly n >= 1 came back
C1_Witness ==
    /\ pc = "returned"
    /\ n_results >= 1
    /\ Len(sample) = n_results
    /\ Cardinality(Matching) > n_results

\* C2: once a normalized title is in the cache with a URL or None, a later
\* record with that normalized title gets the cached value and no search is sent
C2_CacheReuse ==
    [][(pc = "loop" /\ CurrentRow.title_clean \in DOMAIN poster_cache) =>
        /\ poster_urls' = Append(poster_urls, poster_cache[CurrentRow.title_clean])
        /\ issued' = issued
        /\ pc' # "raised"]_engineVars

\* a record got the absence cached by an earlier search, under another raw title
C2_Witness ==
    /\ lookup = "cache"
    /\ tmdb_api_key
    /\ Last(poster_urls) = None
    /\ issued = <<>>
    /\ \E i \in DOMAIN movies :
        /\ movies[i].title_clean = movies[sample[Len(poster_urls)]].title_clean
        /\ movies[i].title # movies[sample[Len(poster_urls)]].title

\* C7: every record drawn has an indicator set among the genres mapped to the
\* trimmed, lower-cased emotion (Drama for an emotion outside the mapping), and
\* nothing but a negative size makes the call raise
C7_GenreFilter ==
    /\ \A i \in DOMAIN sample : sample[i] \in Matching
    /\ pc = "raised" => n_results < 0

\* an emotion outside the mapping returned Drama records
C7_Witness ==
    /\ pc = "returned"
    /\ NormalEmotion \notin EMOTION_GENRE_KEYS
    /\ sample # <<>>
    /\ \A i \in DOMAIN sample : "Drama" \in movies[sample[i]].genres

\* C8: cache first, then the local poster path (image base + path, cached, no
\* search), and a search only for a title neither cached nor with a local path
C8_Priority ==
    [][pc = "loop" =>
        LET key == CurrentRow.title_clean
            path == CurrentRow.poster_path
        IN  /\ key \in DOMAIN poster_cache =>
                Last(poster_urls') = poster_cache[key] /\ issued' = issued
            /\ (key \notin DOMAIN poster_cache /\ path # None) =>
                /\ Last(poster_urls') = Str(ImageBase \o path.s)
                /\ key \in DOMAIN poster_cache'
                /\ poster_cache'[key] = Str(ImageBase \o path.s)
                /\ issued' = issued
            /\ issued' # issued =>
                key \notin DOMAIN poster_cache /\ path = None]_engineVars

\* a call resolved a record from its local path without any search
C8_Witness ==
    /\ pc = "returned"
    /\ lookup = "local"
    /\ issued = <<>>
    /\ Last(poster_urls) = Str(ImageBase \o movies[Last(sample)].poster_path.s)

\* C9: a search that fails or finds nothing does not raise: the record gets
\* None, None is cached under its normalized title, and the loop goes on to
\* return one URL per sampled record
C9_LookupFailure ==
    [][/\ (pc = "loop" /\ issued' # issued /\ lookup' \in {"error", "empty"}) =>
            /\ pc' \in {"loop", "returned"}
            /\ poster_urls' = Append(poster_urls, None)
            /\ CurrentRow.title_clean \in DOMAIN poster_cache'
            /\ poster_cache'[CurrentRow.title_clean] = None
       /\ pc = "loop" => pc' # "raised"
       /\ pc' = "returned" => Len(poster_urls') = Len(sample')]_engineVars

\* a search failed and the call went on to resolve the next record
C9_Witness ==
    /\ pc = "returned"
    /\ Len(sample) >= 2
    /\ lookup # "error"
    /\ Len(issued) = 1
    /\ \E i \in 1..(Len(sample) - 1) :
        /\ poster_urls[i] = None
        /\ movies[sample[i]].title = issued[1]
        /\ poster_cache[movies[sample[i]].title_clean] = None

\* C10: a key of the poster cache is never removed and its value never changes
C10_WriteOnce ==
    [][\A k \in DOMAIN poster_cache :
        k \in DOMAIN poster_cache' /\ poster_cache'[k] = poster_cache[k]]_engineVars

\* a record with a local path of its own got the differing value cached for
\* its normalized title, and the cache kept that value
C10_Witness ==
    /\ lookup = "cache"
    /\ movies[sample[Len(poster_urls)]].poster_path # None
    /\ Last(poster_urls) # Str(ImageBase \o movies[sample[Len(poster_urls)]].poster_path.s)
    /\ poster_cache[movies[sample[Len(poster_urls)]].title_clean] = Last(poster_urls)

----------------------------------------------------------------------------
(* movies_preprocessing.py: numbers *)

\* A numeric cell is the missing float NaNf or an exact fraction n/d in lowest
\* terms; a raw CSV cell is a number, text that is no number, or missing.
Num(n, d) == [k |-> "num", n |-> n, d |-> d]
NaNf == [k |-> "nan", n |-> 0, d |-> 1]
RawText == [k |-> "text", n |-> 0, d |-> 1]

Abs(a) == IF a < 0 THEN -a ELSE a

RECURSIVE Gcd(_, _)
Gcd(a, b) == IF b = 0 THEN a ELSE Gcd(b, a % b)

Norm(n, d) == LET g == Gcd(Abs(n), d) IN Num(n \div g, d \div g)

Add(x, y) == Norm(x.n * y.d + y.n * x.d, x.d * y.d)
Sub(x, y) == Norm(x.n * y.d - y.n * x.d, x.d * y.d)
Mul(x, y) == Norm(x.n * y.n, x.d * y.d)
DivInt(x, c) == Norm(x.n, x.d * c)
Less(x, y) == x.n * y.d < y.n * x.d

\* Series.isna
IsNa(cell) == cell.k = "nan"

\* the non-missing values of a column, in row order
Present(col) == SelectSeq(col, LAMBDA c : ~IsNa(c))

RECURSIVE SumSeq(_)
SumSeq(col) == IF col = <<>> THEN Num(0, 1) ELSE Add(Head(col), SumSeq(Tail(col)))

\* Series.mean(): over the non-missing values, NaN when there is none
Mean(col) ==
    IF Present(col) = <<>> THEN NaNf ELSE DivInt(SumSeq(Present(col)), Len(Present(col)))

RECURSIVE Insert(_, _)
Insert(x, sorted) ==
    IF sorted = <<>> THEN <<x>>
    ELSE IF Less(Head(sorted), x) THEN <<Head(sorted)>> \o Insert(x, Tail(sorted))
    ELSE <<x>> \o sorted

RECURSIVE Sort(_)
Sort(col) == IF col = <<>> THEN <<>> ELSE Insert(Head(col), Sort(Tail(col)))

\* Series.median(): over the non-missing values, NaN when there is none
Median(col) ==
    LET v == Sort(Present(col))
        m == Len(v)
    IN  IF m = 0 THEN NaNf
        ELSE IF m % 2 = 1 THEN v[(m + 1) \div 2]
        ELSE DivInt(Add(v[m \div 2], v[m \div 2 + 1]), 2)

\* Series.fillna(value): a NaN value fills nothing
FillNa(cell, value) == IF IsNa(cell) /\ ~IsNa(value) THEN value ELSE cell

\* the population variance StandardScaler fits, NaN when there is no value
Variance(col) ==
    IF Present(col) = <<>> THEN NaNf
    ELSE LET mu == Mean(col)
             sq == [i \in 1..Len(Present(col)) |->
                        Mul(Sub(Present(col)[i], mu), Sub(Present(col)[i], mu))]
         IN  DivInt(SumSeq(sq), Len(sq))

----------------------------------------------------------------------------
(* movies_preprocessing.py: the script *)

MaxRows == 3    \* rows of the raw dataset

\* line 59, datetime.now().year
current_year == 2026

\* lines 11-12
numeric_columns ==
    <<"budget", "popularity", "revenue", "runtime", "vote_average", "vote_count">>

\* line 65
scale_cols == <<"budget", "popularity", "revenue", "runtime", "movie_age">>

Column(table, c) == [i \in 1..Len(table) |-> table[i][c]]

\* raw rows: the six numeric fields all holding v, except those in bad, which
\* hold text (budget) or nothing; release_date a year, or text
RawRow(v, bad, date) ==
    [budget |-> IF "budget" \in bad THEN RawText ELSE Num(v, 1),
     popularity |-> IF "popularity" \in bad THEN NaNf ELSE Num(v, 1),
     revenue |-> IF "revenue" \in bad THEN NaNf ELSE Num(v, 1),
     runtime |-> IF "runtime" \in bad THEN NaNf ELSE Num(v, 1),
     vote_average |-> IF "vote_average" \in bad THEN NaNf ELSE Num(v, 1),
     vote_count |-> IF "vote_count" \in bad THEN NaNf ELSE Num(v, 1),
     release_date |-> date,
     release_year |-> NaNf,
     movie_age |-> NaNf]

RawDates == {Num(2021, 1), Num(2027, 1), Num(2030, 1), RawText}

RawRows ==
    {RawRow(1, {}, date) : date \in RawDates}
    \cup {RawRow(4, {"budget", "vote_count"}, date) : date \in {Num(2021, 1), RawText}}
    \cup {RawRow(0, Range(numeric_columns), date) : date \in {Num(2010, 1), Num(2027, 1)}}

RawTables == SeqsUpTo(RawRows, MaxRows) \ {<<>>}

NoScaler == [c \in Range(scale_cols) |-> [mean |-> NaNf, var |-> NaNf]]

\* lines 14-15: pd.to_numeric(errors='coerce')
to_numeric(cell) == IF cell.k = "num" THEN cell ELSE NaNf

Coerce ==
    /\ step = "read"
    /\ df' = [i \in 1..Len(df) |->
                [c \in DOMAIN df[i] |->
                    IF c \in Range(numeric_columns) THEN to_numeric(df[i][c]) ELSE df[i][c]]]
    /\ step' = "coerced"
    /\ UNCHANGED scaler
    /\ UNCHANGED <<engineVars, adapterVars, clientVars>>

\* lines 19-20: fillna with the column means
Impute ==
    /\ step = "coerced"
    /\ df' = [i \in 1..Len(df) |->
                [c \in DOMAIN df[i] |->
                    IF c \in Range(numeric_columns)
                    THEN FillNa(df[i][c], Mean(Column(df, c)))
                    ELSE df[i][c]]]
    /\ step' = "imputed"
    /\ UNCHANGED scaler
    /\ UNCHANGED <<engineVars, adapterVars, clientVars>>

\* lines 57-58: pd.to_datetime(errors='coerce') and .dt.year
release_year(date) == IF date.k = "num" THEN date ELSE NaNf

\* line 60
age_of(year) == IF IsNa(year) THEN NaNf ELSE Sub(Num(current_year, 1), year)

\* lines 57-60
Age ==
    /\ step = "imputed"
    /\ df' = [i \in 1..Len(df) |->
                [df[i] EXCEPT !.release_year = release_year(df[i].release_date),
                              !.movie_age = age_of(release_year(df[i].release_date))]]
    /\ step' = "aged"
    /\ UNCHANGED scaler
    /\ UNCHANGED <<engineVars, adapterVars, clientVars>>

\* line 61: the median is taken over every non-missing age
AgeFill ==
    /\ step = "aged"
    /\ df' = [i \in 1..Len(df) |->
                [df[i] EXCEPT !.movie_age =
                    FillNa(df[i].movie_age, Median(Column(df, "movie_age")))]]
    /\ step' = "filled"
    /\ UNCHANGED scaler
    /\ UNCHANGED <<engineVars, adapterVars, clientVars>>

\* the value line 62 assigns: the median of the column as line 61 left it
fix_value(ages) == Median(ages)

\* line 62: NaN < 0 is False, so a missing age is not selected
AgeFix ==
    /\ step = "filled"
    /\ df' = [i \in 1..Len(df) |->
                [df[i] EXCEPT !.movie_age =
                    IF ~IsNa(df[i].movie_age) /\ Less(df[i].movie_age, Num(0, 1))
                    THEN fix_value(Column(df, "movie_age"))
                    ELSE df[i].movie_age]]
    /\ step' = "fixed"
    /\ UNCHANGED scaler
    /\ UNCHANGED <<engineVars, adapterVars, clientVars>>

\* StandardScaler.transform: a value becomes its deviation from the fitted
\* mean, to be read as divided by sqrt(var) (by 1 when var is 0); NaN stays NaN
transform(cell, fit) ==
    IF IsNa(cell) \/ IsNa(fit.mean) THEN NaNf
    ELSE [k |-> "z", n |-> Sub(cell, fit.mean).n, d |-> Sub(cell, fit.mean).d]

\* lines 64-68: fit_transform ignores NaN when fitting
Standardize ==
    /\ step = "fixed"
    /\ scaler' = [c \in Range(scale_cols) |->
                    [mean |-> Mean(Column(df, c)), var |-> Variance(Column(df, c))]]
    /\ df' = [i \in 1..Len(df) |->
                [c \in DOMAIN df[i] |->
                    IF c \in Range(scale_cols) THEN transform(df[i][c], scaler'[c])
                    ELSE df[i][c]]]
    /\ step' = "scaled"
    /\ UNCHANGED <<engineVars, adapterVars, clientVars>>

PreInit ==
    /\ df \in RawTables
    /\ step = "read"
    /\ scaler = NoScaler

PreNext == Coerce \/ Impute \/ Age \/ AgeFill \/ AgeFix \/ Standardize

----------------------------------------------------------------------------
(* emotion_analysis.py *)

Joy == <<"j", "o", "y">>
Anger == <<"a", "n", "g", "e", "r">>
Sadness == <<"s", "a", "d", "n", "e", "s", "s">>
Fear == <<"f", "e", "a", "r">>
Neutral == <<"n", "e", "u", "t", "r", "a", "l">>
Surprise == <<"s", "u", "r", "p", "r", "i", "s", "e">>
Disgust == <<"d", "i", "s", "g", "u", "s", "t">>

Thrilling == <<"t", "h", "r", "i", "l", "l", "i", "n", "g">>
Romantic == <<"r", "o", "m", "a", "n", "t", "i", "c">>
Funny == <<"f", "u", "n", "n", "y">>
Cozy == <<"c", "o", "z", "y">>
Intense == <<"i", "n", "t", "e", "n", "s", "e">>
Scary == <<"s", "c", "a", "r", "y">>

EMOTION_TO_MOOD_KEYS == {Joy, Anger, Sadness, Fear, Neutral, Surprise, Disgust}

\* lines 19-28
EMOTION_TO_MOOD(raw) ==
    CASE raw = Joy -> Happy
      [] raw = Anger -> Intense
      [] raw = Sadness -> Sad
      [] raw = Fear -> Scary
      [] raw = Neutral -> Cozy
      [] raw = Surprise -> Thrilling
      [] raw = Disgust -> Intense

\* an unmapped label falling back to the neutral label instead of a mood
mood_of_neutral(raw) == IF raw \in EMOTION_TO_MOOD_KEYS THEN EMOTION_TO_MOOD(raw) ELSE Neutral

\* line 54: EMOTION_TO_MOOD.get(raw, "cozy")
mood_of(raw) == IF raw \in EMOTION_TO_MOOD_KEYS THEN EMOTION_TO_MOOD(raw) ELSE Cozy

\* texts handed to the adapter
Texts ==
    { <<>>, <<" ">>, <<"\t", " ", "\n">>, <<"o", "k">>, <<" ", "n", "o", " ">> }

\* labels the classifier answers with
Labels == { Joy, <<"A", "N", "G", "E", "R">>, Neutral, Fear, <<"l", "o", "v", "e">> }

\* its confidence, in thousandths
Scores == {0, 987, 1000}

\* line 58: f"{score:.3f}" of a confidence given in thousandths
format_score(milli) ==
    <<ToString(milli \div 1000), ".", ToString((milli \div 100) % 10),
      ToString((milli \div 10) % 10), ToString(milli % 10)>>

\* only the empty text taken for blank
blank_text_empty(t) == t = <<>>

\* line 42: not text.strip()
blank_text(t) == strip(t) = <<>>

\* lines 43-47
neutral_result ==
    [raw_emotion |-> Neutral, score |-> <<"0", ".", "0">>, mood |-> Cozy]

\* lines 50-60
classified_result(label, milli) ==
    [raw_emotion |-> lower(label), score |-> format_score(milli),
     mood |-> mood_of(lower(label))]

\* a handle built on every call
get_emotion_pipeline_uncached(cached, count) == [hit |-> FALSE, built |-> count + 1]

\* lines 7-15: @lru_cache(maxsize=1) on a function of no arguments: the body
\* runs, and pipeline(...) is constructed, only when the cache is empty
get_emotion_pipeline(cached, count) ==
    [hit |-> cached, built |-> IF cached THEN count ELSE count + 1]

AdapterInit ==
    /\ pipeline_cached = FALSE
    /\ built = 0
    /\ hit = FALSE
    /\ text = <<>>
    /\ invoked = 0
    /\ detected = neutral_result

\* lines 42-47: blank text, no classifier
DetectBlank ==
    /\ tab = "idle"
    /\ \E t \in Texts :
        /\ blank_text(t)
        /\ text' = t
    /\ detected' = neutral_result
    /\ invoked' = 0
    /\ hit' = FALSE
    /\ UNCHANGED <<pipeline_cached, built>>
    /\ UNCHANGED <<engineVars, preVars, clientVars>>

\* lines 49-60, with _get_emotion_pipeline (lines 7-15) building the handle
\* on the first call and lru_cache returning it afterwards
DetectClassified ==
    /\ tab = "idle"
    /\ \E t \in Texts, label \in Labels, milli \in Scores :
        /\ ~blank_text(t)
        /\ text' = t
        /\ detected' = classified_result(label, milli)
    /\ built' = get_emotion_pipeline(pipeline_cached, built).built
    /\ hit' = get_emotion_pipeline(pipeline_cached, built).hit
    /\ pipeline_cached' = TRUE
    /\ invoked' = 1
    /\ UNCHANGED <<engineVars, preVars, clientVars>>

----------------------------------------------------------------------------
(* model.py: the catalog client *)

MOOD_GENRES_KEYS == {Happy, Sad, Thrilling, Romantic, Funny, Cozy, Intense, Scary}

\* lines 27-36
MOOD_GENRES(m) ==
    CASE m = Happy -> <<"Comedy", "Family", "Romance">>
      [] m = Sad -> <<"Drama">>
      [] m = Thrilling -> <<"Action", "Thriller", "Mystery">>
      [] m = Romantic -> <<"Romance", "Drama">>
      [] m = Funny -> <<"Comedy">>
      [] m = Cozy -> <<"Animation", "Family">>
      [] m = Intense -> <<"Action", "Crime", "Thriller">>
      [] m = Scary -> <<"Horror", "Thriller">>

Raised == <<"raised">>

NoArg == [query |-> <<>>, year |-> 0, genre_ids |-> <<>>, mood |-> <<>>]

\* one call of _get (lines 52-60): the path and the parameters that matter
Request(path, query, year, with_genres) ==
    [path |-> path, query |-> query, year |-> year, with_genres |-> with_genres]

\* result lists of a search or discovery response
ResultLists ==
    { <<>>,
      <<[id |-> 1, poster_path |-> Str(<<"/", "a">>)]>>,
      <<[id |-> 2, poster_path |-> Str(<<>>)], [id |-> 3, poster_path |-> None],
        [id |-> 1, poster_path |-> Str(<<"/", "a">>)]>> }

\* what one HTTP call does: raise (status, timeout) or answer with data
Responses(datas) == {[ok |-> FALSE, data |-> <<>>]} \cup {[ok |-> TRUE, data |-> d] : d \in datas}

\* lines 88-105, 159-173: the record built for one movie object
movie_record(m) ==
    [id |-> m.id,
     poster_url |-> IF m.poster_path.k = "str" /\ m.poster_path.s # <<>>
                    THEN Str(ImageBase \o m.poster_path.s)
                    ELSE None]

movie_records(results) == [i \in 1..Len(results) |-> movie_record(results[i])]

\* queries handed to search_movies
Queries == { <<>>, <<" ">>, <<"\t", " ">>, <<"u", "p">>, <<" ", "u", "p">> }

\* the year argument: 0 stands for None
Years == {0, 1999}

\* only the empty query taken for blank
blank_query_empty(q) == q = <<>>

\* line 73: not query.strip()
blank_query(q) == strip(q) = <<>>

\* line 149: not genre_ids
no_genres(ids) == ids = <<>>

\* line 153: ",".join(str(g) for g in genre_ids)
RECURSIVE join_ids(_)
join_ids(ids) ==
    IF ids = <<>> THEN <<>>
    ELSE IF Len(ids) = 1 THEN <<ToString(Head(ids))>>
    ELSE <<ToString(Head(ids)), ",">> \o join_ids(Tail(ids))

\* lines 65-105: the requests sent and the value returned
search_movies(query, year, resp) ==
    IF blank_query(query) THEN [http |-> <<>>, ret |-> <<>>]
    ELSE [http |-> <<Request("/search/movie", query, year, <<>>)>>,
          ret |-> IF resp.ok THEN movie_records(resp.data) ELSE Raised]

\* lines 148-173
discover_by_genre(genre_ids, resp) ==
    IF no_genres(genre_ids) THEN [http |-> <<>>, ret |-> <<>>]
    ELSE [http |-> <<Request("/discover/movie", <<>>, 0, join_ids(genre_ids))>>,
          ret |-> IF resp.ok THEN movie_records(resp.data) ELSE Raised]

\* genre id lists handed to discover_by_genre
GenreIdLists == { <<>>, <<28>>, <<35, 18>> }

\* genre listings the catalog answers with
GenreListings ==
    { <<>>,
      <<[name |-> "Drama", id |-> 18], [name |-> "Comedy", id |-> 35]>>,
      <<[name |-> "Action", id |-> 28], [name |-> "Animation", id |-> 16],
        [name |-> "Comedy", id |-> 35], [name |-> "Crime", id |-> 80],
        [name |-> "Drama", id |-> 18], [name |-> "Family", id |-> 10751],
        [name |-> "Horror", id |-> 27], [name |-> "Mystery", id |-> 9648],
        [name |-> "Romance", id |-> 10749], [name |-> "Thriller", id |-> 53]>> }

\* line 116: {g["name"]: g["id"] for g in genres}, a later entry replacing an
\* earlier one of the same name
genre_dict(genres) ==
    [name \in {genres[i].name : i \in DOMAIN genres} |->
        genres[CHOOSE i \in DOMAIN genres :
                  /\ genres[i].name = name
                  /\ \A j \in DOMAIN genres : genres[j].name = name => j <= i].id]

\* lines 110-116
get_genres(resp) ==
    [http |-> <<Request("/genre/movie/list", <<>>, 0, <<>>)>>,
     ret |-> IF resp.ok THEN genre_dict(resp.data) ELSE Raised]

\* the ids of the known names, last name first
mood_genre_ids_reversed(names, genre_map) ==
    LET known == SelectSeq(names, LAMBDA name : name \in DOMAIN genre_map) IN
    [i \in 1..Len(known) |-> genre_map[known[Len(known) + 1 - i]]]

\* lines 185-189
mood_genre_ids(names, genre_map) ==
    LET known == SelectSeq(names, LAMBDA name : name \in DOMAIN genre_map) IN
    [i \in 1..Len(known) |-> genre_map[known[i]]]

\* lines 178-192
discover_by_mood(m, genres_resp, discover_resp) ==
    IF lower(m) \notin MOOD_GENRES_KEYS THEN [http |-> <<>>, ret |-> <<>>]
    ELSE LET g == get_genres(genres_resp) IN
         IF g.ret = Raised THEN [http |-> g.http, ret |-> Raised]
         ELSE LET ids == mood_genre_ids(MOOD_GENRES(lower(m)), g.ret) IN
              IF ids = <<>> THEN [http |-> g.http, ret |-> <<>>]
              ELSE LET d == discover_by_genre(ids, discover_resp) IN
                   [http |-> g.http \o d.http, ret |-> d.ret]

\* moods handed to discover_by_mood
Moods ==
    MOOD_GENRES_KEYS \cup { <<"H", "a", "p", "p", "y">>, <<" ", "s", "a", "d">>,
                            <<"b", "o", "r", "e", "d">> }

ClientInit ==
    /\ op = "init"
    /\ arg = NoArg
    /\ http = <<>>
    /\ answers = <<>>
    /\ ret = <<>>
    /\ tab = "idle"

SearchMovies ==
    /\ \E query \in Queries, year \in Years, resp \in Responses(ResultLists) :
        LET r == search_movies(query, year, resp) IN
        /\ arg' = [NoArg EXCEPT !.query = query, !.year = year]
        /\ http' = r.http
        /\ answers' = SubSeq(<<resp>>, 1, Len(r.http))
        /\ ret' = r.ret
    /\ op' = "search_movies"
    /\ UNCHANGED <<engineVars, preVars, adapterVars, tab>>

DiscoverByGenre ==
    /\ \E genre_ids \in GenreIdLists, resp \in Responses(ResultLists) :
        LET r == discover_by_genre(genre_ids, resp) IN
        /\ arg' = [NoArg EXCEPT !.genre_ids = genre_ids]
        /\ http' = r.http
        /\ answers' = SubSeq(<<resp>>, 1, Len(r.http))
        /\ ret' = r.ret
    /\ op' = "discover_by_genre"
    /\ UNCHANGED <<engineVars, preVars, adapterVars, tab>>

DiscoverByMood ==
    /\ \E m \in Moods, genres_resp \in Responses(GenreListings),
          discover_resp \in Responses(ResultLists) :
        LET r == discover_by_mood(m, genres_resp, discover_resp) IN
        /\ arg' = [NoArg EXCEPT !.mood = m]
        /\ http' = r.http
        /\ answers' = SubSeq(<<genres_resp, discover_resp>>, 1, Len(r.http))
        /\ ret' = r.ret
    /\ op' = "discover_by_mood"
    /\ UNCHANGED <<engineVars, preVars, adapterVars, tab>>

\* frontend/app.py lines 253-262, the "Analyze Emotion & Recommend" button: a
\* blank text is turned away with a warning, any other text is classified
TabAnalyze ==
    /\ tab = "idle"
    /\ \E mood_text \in Texts, label \in Labels, milli \in Scores :
        /\ strip(mood_text) # <<>>
        /\ text' = mood_text
        /\ detected' = classified_result(label, milli)
    /\ built' = get_emotion_pipeline(pipeline_cached, built).built
    /\ hit' = get_emotion_pipeline(pipeline_cached, built).hit
    /\ pipeline_cached' = TRUE
    /\ invoked' = 1
    /\ tab' = "analyzed"
    /\ UNCHANGED <<op, arg, http, answers, ret>>
    /\ UNCHANGED <<engineVars, preVars>>

\* frontend/app.py lines 262-271: mood = info["mood"], then
\* recommender.discover_by_mood(mood)
TabDiscover ==
    /\ tab = "analyzed"
    /\ \E genres_resp \in Responses(GenreListings),
          discover_resp \in Responses(ResultLists) :
        LET mood == detected.mood
            r == discover_by_mood(mood, genres_resp, discover_resp) IN
        /\ arg' = [NoArg EXCEPT !.mood = mood]
        /\ http' = r.http
        /\ answers' = SubSeq(<<genres_resp, discover_resp>>, 1, Len(r.http))
        /\ ret' = r.ret
    /\ op' = "discover_by_mood"
    /\ tab' = "idle"
    /\ UNCHANGED <<engineVars, preVars, adapterVars>>

----------------------------------------------------------------------------
(* Specifications: one per component, the other components at rest *)

EngineIdle ==
    /\ df_pre = <<>>
    /\ df_meta = <<>>
    /\ tmdb_api_key = FALSE
    /\ movies = <<>>
    /\ poster_cache = EmptyCache
    /\ pc = "idle"
    /\ emotion = <<>>
    /\ n_results = 0
    /\ sample = <<>>
    /\ poster_urls = <<>>
    /\ issued = <<>>
    /\ lookup = "none"

PreIdle ==
    /\ df = <<>>
    /\ step = "off"
    /\ scaler = NoScaler

InitEngine == EngineInit /\ PreIdle /\ AdapterInit /\ ClientInit

SpecEngine == InitEngine /\ [][EngineNext]_vars

InitPre == PreInit /\ EngineIdle /\ AdapterInit /\ ClientInit

SpecPre == InitPre /\ [][PreNext]_vars

\* the emotion adapter, called directly and by the emotion tab
MoodNext == DetectBlank \/ DetectClassified \/ TabAnalyze \/ TabDiscover

InitMood == AdapterInit /\ ClientInit /\ EngineIdle /\ PreIdle

SpecMood == InitMood /\ [][MoodNext]_vars

\* the catalog client
ClientNext == SearchMovies \/ DiscoverByGenre \/ DiscoverByMood

InitClient == ClientInit /\ AdapterInit /\ EngineIdle /\ PreIdle

SpecClient == InitClient /\ [][ClientNext]_vars

\* rows of the processed table for the startup: those above, a row with no
\* genre column set and a row whose only genre is outside GENRE_COLUMNS
StartupRows ==
    PreRows \cup
    { [title |-> Str(<<"Z">>), overview |-> NaN, genres |-> {}],
      [title |-> Str(<<"M", "a">>), overview |-> Str(<<"o", "2">>), genres |-> {"Foreign"}] }

StartupTables == SeqsUpTo(StartupRows, MaxPre) \ {<<>>}

\* lines 119-120: both files read, nothing built yet
InitStartup ==
    /\ df_pre \in StartupTables
    /\ df_meta \in MetaTables
    /\ tmdb_api_key = FALSE
    /\ movies = <<>>
    /\ poster_cache = EmptyCache
    /\ pc = "start"
    /\ emotion = <<>>
    /\ n_results = 0
    /\ sample = <<>>
    /\ poster_urls = <<>>
    /\ issued = <<>>
    /\ lookup = "none"
    /\ PreIdle /\ AdapterInit /\ ClientInit

\* lines 123-158: the rest of MovieRecommender.__init__
Startup ==
    /\ pc = "start"
    /\ movies' = Merge(df_pre, df_meta)
    /\ poster_cache' = EmptyCache
    /\ pc' = "idle"
    /\ UNCHANGED <<df_pre, df_meta, tmdb_api_key, emotion, n_results, sample,
                   poster_urls, issued, lookup>>
    /\ UNCHANGED <<preVars, adapterVars, clientVars>>

SpecStartup == InitStartup /\ [][Startup]_vars

----------------------------------------------------------------------------
(* Properties of the preprocessor *)

\* the numeric feature columns of the processed table
NumericFeatures == Range(numeric_columns) \cup {"movie_age"}

\* C3 as stated: once the script has run, no numeric feature column holds a
\* missing value, whatever the raw table
C3_NoMissingNumeric ==
    step = "scaled" =>
        \A i \in DOMAIN df : \A c \in NumericFeatures : ~IsNa(df[i][c])

\* the age line 60 gave a row, recomputed from its release year
OriginalAge(i) == age_of(df[i].release_year)

\* the ages of the corpus that are valid: present and not negative
ValidAges ==
    SelectSeq([i \in DOMAIN df |-> OriginalAge(i)],
              LAMBDA a : ~IsNa(a) /\ ~Less(a, Num(0, 1)))

\* C4 as stated, for a corpus with at least one valid age: before
\* standardization every movie_age is >= 0, and a row whose age was missing or
\* negative holds the median of the valid ages
C4_AgeFromValidMedian ==
    (step = "fixed" /\ ValidAges # <<>>) =>
        \A i \in DOMAIN df :
            /\ ~IsNa(df[i].movie_age)
            /\ ~Less(df[i].movie_age, Num(0, 1))
            /\ (IsNa(OriginalAge(i)) \/ Less(OriginalAge(i), Num(0, 1))) =>
                    df[i].movie_age = Median(ValidAges)

----------------------------------------------------------------------------
(* Properties of the emotion adapter and the catalog client *)

\* C5: a text that is empty or only whitespace gets raw_emotion "neutral",
\* score "0.0" and the mood EMOTION_TO_MOOD gives "neutral", and the call
\* neither builds the classifier nor invokes it
C5_BlankShortCircuit ==
    [][strip(text') = <<>> =>
        /\ detected' = [raw_emotion |-> Neutral, score |-> <<"0", ".", "0">>,
                        mood |-> EMOTION_TO_MOOD(Neutral)]
        /\ invoked' = 0
        /\ built' = built
        /\ pipeline_cached' = pipeline_cached]_vars

\* a whitespace-only text before the classifier was ever built
C5_Witness ==
    /\ text = <<"\t", " ", "\n">>
    /\ detected.mood = Cozy
    /\ detected.score = <<"0", ".", "0">>
    /\ invoked = 0
    /\ built = 0

\* C6: discover_by_genre with no ids and search_movies with an empty or
\* whitespace-only query return an empty list and send no request
C6_NoRequestOnEmpty ==
    (\/ op = "discover_by_genre" /\ arg.genre_ids = <<>>
     \/ op = "search_movies" /\ strip(arg.query) = <<>>) =>
        ret = <<>> /\ http = <<>>

\* a whitespace-only search came back empty without a request
C6_Witness ==
    /\ op = "search_movies"
    /\ arg.query = <<"\t", " ">>
    /\ ret = <<>>
    /\ http = <<>>

\* C11: over any sequence of detect_emotion_and_mood calls the classifier
\* handle is constructed at most once: a call with non-blank text made while
\* none exists constructs it, and every later such call takes it from the
\* cache and constructs nothing
C11_BuiltAtMostOnce ==
    [][/\ built' \in {0, 1}
       /\ built' >= built
       /\ strip(text') # <<>> => (built' = 1 /\ pipeline_cached')
       /\ (built = 0 /\ strip(text') # <<>>) => ~hit'
       /\ (built = 1 /\ strip(text') # <<>> /\ adapterVars' # adapterVars) =>
              (hit' /\ invoked' = 1)]_vars

\* a classified call answered by the handle an earlier call had built
C11_Witness ==
    /\ hit
    /\ built = 1
    /\ invoked = 1
    /\ strip(text) = <<"n", "o">>
    /\ detected.mood = Scary

----------------------------------------------------------------------------
(* Properties of the engine startup *)

\* __init__ has run on the tables read
Started == pc = "idle" /\ df_pre # <<>>

\* the first row of df_meta, in source order, whose normalized title is that
\* of r; a row of NaN when there is none
FirstMatch(r) ==
    LET ms == SelectSeq(df_meta, LAMBDA m : title_clean(m.title) = title_clean(r.title)) IN
    IF ms = <<>> THEN [poster_path |-> NaN, overview |-> NaN] ELSE Head(ms)

\* C12 as stated: the working set holds exactly one record per processed
\* record, in order, and each carries the poster path of the first secondary
\* row sharing its normalized title
C12_FirstMatchJoin ==
    Started =>
        /\ Len(movies) = Len(df_pre)
        /\ \A i \in DOMAIN movies :
            /\ movies[i].title = df_pre[i].title
            /\ movies[i].poster_path = clean_poster(FirstMatch(df_pre[i]).poster_path)

\* the processed rows a record of the working set was joined from
Origins(row) == {j \in DOMAIN df_pre : df_pre[j].title = row.title /\ df_pre[j].genres = row.genres}

\* C13 as stated: after startup every record has an overview that is not
\* missing, and it is the processed overview wherever that one is a string
\* with something in it
C13_OverviewPresent ==
    Started =>
        \A i \in DOMAIN movies :
            /\ movies[i].overview.k = "str"
            /\ \A j \in Origins(movies[i]) :
                (df_pre[j].overview.k = "str" /\ strip(df_pre[j].overview.s) # <<>>) =>
                    movies[i].overview = df_pre[j].overview

\* the genre names a label lists
LabelNames(label) == Range(label) \ {", "}

\* C14 as stated: genre_label lists exactly the genre indicator columns set
\* for the record, whichever columns the processed table has, and is
\* "Unknown" if and only if the record has none set
C14_LabelAllIndicators ==
    Started =>
        \A i \in DOMAIN movies :
            /\ (movies[i].genre_label = <<"Unknown">>) <=> (movies[i].genres = {})
            /\ movies[i].genres # {} => LabelNames(movies[i].genre_label) = movies[i].genres

----------------------------------------------------------------------------
(* Properties of discover_by_mood and of the moods the adapter hands it *)

\* the names of MOOD_GENRES[m] that a genre listing holds, in mapping order
ListedNames(m, listing) ==
    SelectSeq(MOOD_GENRES(m), LAMBDA name : \E i \in DOMAIN listing : listing[i].name = name)

\* the id a genre listing gives a name
ListedId(name, listing) ==
    listing[CHOOSE i \in DOMAIN listing : listing[i].name = name].id

\* C15: discover_by_mood returns an empty list without any request when the
\* lower-cased mood is not a key of MOOD_GENRES; otherwise it sends one
\* genre-list request first, returns an empty list after it when the listing
\* holds none of the mood's genre names, and else sends exactly one discovery
\* request, whose with_genres are the ids of the mood's listed names in
\* mapping order, and returns what that discovery gives (a request that
\* fails raises out of the call)
C15_MoodDiscovery ==
    op = "discover_by_mood" =>
        LET m == lower(arg.mood) IN
        IF m \notin MOOD_GENRES_KEYS THEN ret = <<>> /\ http = <<>>
        ELSE /\ Len(http) >= 1
             /\ Len(answers) = Len(http)
             /\ http[1] = Request("/genre/movie/list", <<>>, 0, <<>>)
             /\ IF ~answers[1].ok THEN Len(http) = 1 /\ ret = Raised
                ELSE LET names == ListedNames(m, answers[1].data)
                         ids == [i \in 1..Len(names) |-> ListedId(names[i], answers[1].data)] IN
                     IF names = <<>> THEN Len(http) = 1 /\ ret = <<>>
                     ELSE /\ Len(http) = 2
                          /\ http[2] = Request("/discover/movie", <<>>, 0, join_ids(ids))
                          /\ ret = IF answers[2].ok THEN movie_records(answers[2].data)
                                   ELSE Raised

\* "Happy" was lower-cased, its three genres were found in the listing and
\* the discovery for their ids, in mapping order, came back with movies
C15_Witness ==
    /\ op = "discover_by_mood"
    /\ arg.mood = <<"H", "a", "p", "p", "y">>
    /\ Len(http) = 2
    /\ http[1].path = "/genre/movie/list"
    /\ http[2].with_genres = <<"35", ",", "10751", ",", "10749">>
    /\ Len(ret) = 3
    /\ ret # Raised

====
